---- MODULE Spec2Model ----
(***************************************************************************)
(* Personal Care API (P-Care-api): the persistence gateway of main.py and  *)
(* the lazily-initialised variant of main_backup.py, as a state machine    *)
(* over the two MongoDB collections "backups" and "schedules".             *)
(***************************************************************************)
EXTENDS Integers, Sequences, FiniteSets, TLC

\* ---------------------------------------------------------------- bounds
\* The server clock runs over 0..MaxClock.
MaxClock == 1
\* Number of coroutines handling POST /schedules at the same time.
NumWriters == 2
\* Number of requests in flight in the lazily-initialised variant.
NumCallers == 3

\* ------------------------------------------------------------ data model
\* Python's None.
None == "None"

UserIds == {"u1", "u2"}
ScheduleIds == {"s1", "s2"}
\* The owner each schedule id may be sent with.
ScheduleOwners == {<<"s1", "u1">>, <<"s2", "u2">>}
\* created_at values a client may put in a schedule payload.
ClientDates == {"2024-01-01", "2099-01-01"}

\* class UserModel
UserFields == {"id", "email", "name", "created_at"}

\* class ScheduleModel
ScheduleFields ==
    {"id", "user_id", "title", "description", "scheduled_time", "frequency",
     "notification_tone", "is_active", "created_at", "updated_at", "end_date",
     "completed_dates", "is_completed"}

\* The Optional[...] = None fields of ScheduleModel.
ScheduleOptional == {"updated_at", "end_date"}

ScheduleRequired == ScheduleFields \ ScheduleOptional

\* A validated UserModel instance.
UserModel(id) ==
    [id |-> id, email |-> "e@x", name |-> "n", created_at |-> "2023-12-31"]

\* A validated ScheduleModel instance as a client sends it.
ScheduleModel(id, user_id, title, created_at) ==
    [id |-> id, user_id |-> user_id, title |-> title, description |-> "d",
     scheduled_time |-> "08:00", frequency |-> "daily",
     notification_tone |-> "tone", is_active |-> "true",
     created_at |-> created_at, updated_at |-> None, end_date |-> None,
     completed_dates |-> "[]", is_completed |-> "false"]

\* A validated BackupDataModel instance.
BackupDataModel(user, schedules, backup_date) ==
    [user |-> user, schedules |-> schedules, backup_date |-> backup_date]

\* datetime.isoformat(): the clock reading as a string.
IsoFormat(t) == "T" \o ToString(t)

\* pydantic .dict(): the model's fields as a plain dict, every field present.
Dict(model) == [f \in DOMAIN model |-> model[f]]

\* Whether ScheduleModel(**doc) validates: every required field is given.
\* Extra keys are ignored by the model.
ScheduleValid(doc) ==
    \A f \in ScheduleRequired : f \in DOMAIN doc /\ doc[f] # None

\* ScheduleModel(**doc) for a doc that validates: the model fields only,
\* absent optional fields defaulting to None.
ParseSchedule(doc) ==
    [f \in ScheduleFields |-> IF f \in DOMAIN doc THEN doc[f] ELSE None]

\* Whether UserModel(**doc) validates.
UserValid(doc) == \A f \in UserFields : f \in DOMAIN doc /\ doc[f] # None

\* UserModel(**doc) for a doc that validates.
ParseUser(doc) == [f \in UserFields |-> doc[f]]

\* dict.pop(key, None): the dict without the key.
Pop(doc, key) == [f \in DOMAIN doc \ {key} |-> doc[f]]

\* ------------------------------------------------------- document store
\* A collection is the sequence of its documents in natural (insertion)
\* order.  Every stored document carries the "_id" the store gave it; the
\* ObjectId value itself is never read by the service and is abstracted.
ObjectId == "oid"

Matches(doc, key, val) == key \in DOMAIN doc /\ doc[key] = val

\* Index of the first document matching {key: val}; 0 when there is none.
FindIndex(coll, key, val) ==
    IF \E i \in 1..Len(coll) : Matches(coll[i], key, val)
    THEN CHOOSE i \in 1..Len(coll) :
            /\ Matches(coll[i], key, val)
            /\ \A j \in 1..(i - 1) : ~Matches(coll[j], key, val)
    ELSE 0

\* collection.find({key: val}).to_list(None)
Find(coll, key, val) == SelectSeq(coll, LAMBDA d : Matches(d, key, val))

WithId(doc) == [f \in DOMAIN doc \cup {"_id"} |->
                    IF f = "_id" THEN ObjectId ELSE doc[f]]

\* A faulty ReplaceOne that inserts without looking for a match.
ReplaceOneInsertOnly(coll, key, val, doc) == Append(coll, WithId(doc))

\* collection.replace_one({key: val}, doc, upsert=True): the first match is
\* wholly replaced (keeping its _id), or the document is inserted.
ReplaceOne(coll, key, val, doc) ==
    LET i == FindIndex(coll, key, val)
    IN  IF i = 0 THEN Append(coll, WithId(doc))
        ELSE [coll EXCEPT ![i] = WithId(doc)]

RemoveAt(coll, i) ==
    [j \in 1..(Len(coll) - 1) |-> IF j < i THEN coll[j] ELSE coll[j + 1]]

\* collection.delete_one({key: val}): the collection afterwards.
DeleteOne(coll, key, val) ==
    LET i == FindIndex(coll, key, val)
    IN  IF i = 0 THEN coll ELSE RemoveAt(coll, i)

\* ------------------------------------------------------------------ state
VARIABLES
    phase,        \* "starting" | "serving" | "failed": the process lifecycle
    client,       \* main.py global client
    database,     \* main.py global database
    clock,        \* datetime.utcnow()
    backups,      \* db.backups
    schedules,    \* db.schedules
    resp,         \* the request handled by the last step and its response
    lastBackup,   \* history: per user id, the payload of the last stored backup
    firstCreated, \* history: per schedule id, created_at stored by the first
                  \* upsert since the id was last absent
    writers,      \* the in-flight create_or_update_schedule coroutines
    _client,      \* main_backup.py global _client
    _database,    \* main_backup.py global _database
    constructed,  \* history: how many AsyncIOMotorClient objects were built
    callers       \* the in-flight requests of main_backup.py

\* The state of main_backup.py's lazy connection.
lazyVars == <<_client, _database, constructed, callers>>

vars == <<phase, client, database, clock, backups, schedules, resp,
          lastBackup, firstCreated, writers, lazyVars>>

Writers == 1..NumWriters
Callers == 1..NumCallers

\* A coroutine that is not handling a request.
IdleWriter == [pc |-> "idle", schedule |-> <<>>, schedule_doc |-> <<>>]

\* A request slot with no request in it.
IdleCaller == [pc |-> "idle", route |-> "", db |-> None, status |-> 0]

\* op, arg: the route and its key.  note: what the request carried (the
\* created_at a schedule payload came with; whether a backup repeated the
\* stored payload at a later clock reading).  store: what the store did for
\* the request, "ok" | "failed" | "unavailable".  status, body: the response.
Response(op, arg, note, store, status, body) ==
    [op |-> op, arg |-> arg, note |-> note, store |-> store,
     status |-> status, body |-> body]

NoResp == Response("none", "", "", "", 0, <<>>)

\* Payloads the clients send.
ScheduleRequests ==
    {ScheduleModel(o[1], o[2], "a", c) : o \in ScheduleOwners, c \in ClientDates}

BackupRequests ==
    {BackupDataModel(UserModel("u1"),
                     <<ScheduleModel("s1", "u1", "a", "2024-01-01"),
                       ScheduleModel("s2", "u1", "b", "2024-01-01")>>,
                     "2024-06-01"),
     BackupDataModel(UserModel("u1"),
                     <<ScheduleModel("s1", "u1", "a", "2024-01-01")>>,
                     "2024-07-01"),
     BackupDataModel(UserModel("u2"),
                     <<ScheduleModel("s2", "u2", "a", "2024-01-01")>>,
                     "2024-06-01")}

Init ==
    /\ phase \in {"starting", "serving"}
    /\ client = None
    /\ database = None
    /\ clock = 0
    /\ backups = <<>>
    /\ schedules = <<>>
    /\ resp = NoResp
    /\ lastBackup = [u \in UserIds |-> <<>>]
    /\ firstCreated = [i \in ScheduleIds |-> None]
    /\ writers = [w \in Writers |-> IdleWriter]
    /\ _client = None
    /\ _database = None
    /\ constructed = 0
    /\ callers = [c \in Callers |-> IdleCaller]

\* ------------------------------------------------------ main.py: lifecycle
\* Time passes between requests.
Tick ==
    /\ clock < MaxClock
    /\ clock' = clock + 1
    /\ resp' = NoResp
    /\ UNCHANGED <<phase, client, database, backups, schedules, lastBackup,
                   firstCreated>>
    /\ UNCHANGED <<writers, lazyVars>>

\* startup_event: the globals are assigned before the ping; a failed ping
\* re-raises and the application does not start serving.
startup_event(pingOk) ==
    /\ phase = "starting"
    /\ client' = "client"
    /\ database' = "db"
    /\ phase' = IF pingOk THEN "serving" ELSE "failed"
    /\ resp' = NoResp
    /\ UNCHANGED <<clock, backups, schedules, lastBackup, firstCreated>>
    /\ UNCHANGED <<writers, lazyVars>>

\* get_database: 200 when the handle is set, HTTPException(503) otherwise.
get_database == IF database = None THEN 503 ELSE 200

\* A faulty handler clause: the HTTPException falls through to the generic
\* "except Exception" and comes out as a 500.
ReRaiseAs500(status) == 500

\* "except HTTPException: raise" lets an HTTPException keep its status.
ReRaise(status) == status

\* "except Exception as e: raise HTTPException(status_code=500, ...)" also
\* catches an HTTPException, which is an Exception.
ExceptException(status) == 500

\* utcnow().isoformat()
UtcNowIso == IsoFormat(clock)

\* ------------------------------------------------------ main.py: handlers
\* A faulty BackupDoc that stores the server time as the backup_date.
BackupDocNowAsDate(backup_data, now) ==
    [user_id |-> backup_data.user.id,
     user |-> Dict(backup_data.user),
     schedules |-> [i \in 1..Len(backup_data.schedules) |->
                        Dict(backup_data.schedules[i])],
     backup_date |-> now,
     created_at |-> now,
     updated_at |-> now]

\* backup_doc of backup_user_data
BackupDoc(backup_data, now) ==
    [user_id |-> backup_data.user.id,
     user |-> Dict(backup_data.user),
     schedules |-> [i \in 1..Len(backup_data.schedules) |->
                        Dict(backup_data.schedules[i])],
     backup_date |-> backup_data.backup_date,
     created_at |-> now,
     updated_at |-> now]

\* POST /backup.  storeOk: whether the store carries out the write.
backup_user_data(backup_data, storeOk) ==
    LET user_id == backup_data.user.id
        i == FindIndex(backups, "user_id", user_id)
        note == IF /\ i # 0
                   /\ lastBackup[user_id] = <<backup_data>>
                   /\ backups[i]["updated_at"] # UtcNowIso
                THEN "repeated later" ELSE ""
    IN
    /\ phase = "serving"
    /\ IF get_database # 200
       THEN /\ resp' = Response("backup", user_id, note, "unavailable",
                                ExceptException(get_database), <<>>)
            /\ UNCHANGED <<backups, lastBackup>>
       ELSE IF ~storeOk
       THEN /\ resp' = Response("backup", user_id, note, "failed",
                                ExceptException(0), <<>>)
            /\ UNCHANGED <<backups, lastBackup>>
       ELSE /\ backups' = ReplaceOne(backups, "user_id", user_id,
                                     BackupDoc(backup_data, UtcNowIso))
            /\ lastBackup' = [lastBackup EXCEPT ![user_id] = <<backup_data>>]
            /\ resp' = Response("backup", user_id, note, "ok", 200,
                                <<IF i = 0 THEN ObjectId ELSE "updated">>)
    /\ UNCHANGED <<phase, client, database, clock, schedules, firstCreated>>
    /\ UNCHANGED <<writers, lazyVars>>

\* RestoreDataResponse(...) built from a stored backup document
RestoreDataResponse(backup_doc) ==
    [user |-> ParseUser(backup_doc["user"]),
     schedules |-> [i \in 1..Len(backup_doc["schedules"]) |->
                        ParseSchedule(backup_doc["schedules"][i])],
     backup_date |-> backup_doc["backup_date"]]

\* Whether building the RestoreDataResponse raises no validation error.
RestoreValid(backup_doc) ==
    /\ UserValid(backup_doc["user"])
    /\ \A i \in 1..Len(backup_doc["schedules"]) :
            ScheduleValid(backup_doc["schedules"][i])

\* GET /restore/{user_id}
restore_user_data(user_id, storeOk) ==
    /\ phase = "serving"
    /\ LET i == FindIndex(backups, "user_id", user_id)
       IN  resp' =
            IF get_database # 200
            THEN Response("restore", user_id, "", "unavailable",
                          ReRaise(get_database), <<>>)
            ELSE IF ~storeOk
            THEN Response("restore", user_id, "", "failed",
                          ExceptException(0), <<>>)
            ELSE IF i = 0
            THEN Response("restore", user_id, "", "ok", ReRaise(404), <<>>)
            ELSE IF ~RestoreValid(backups[i])
            THEN Response("restore", user_id, "", "ok",
                          ExceptException(0), <<>>)
            ELSE Response("restore", user_id, "", "ok", 200,
                          <<RestoreDataResponse(backups[i])>>)
    /\ UNCHANGED <<phase, client, database, clock, backups, schedules,
                   lastBackup, firstCreated>>
    /\ UNCHANGED <<writers, lazyVars>>

\* A faulty ScheduleDoc that keeps the created_at the client sent.
ScheduleDocClientCreated(schedule, coll, updatedNow, createdNow) ==
    [Dict(schedule) EXCEPT !["updated_at"] = updatedNow]

\* schedule_doc of create_or_update_schedule, given the collection the
\* find_one looks in and the two clock readings.
ScheduleDoc(schedule, coll, updatedNow, createdNow) ==
    LET i == FindIndex(coll, "id", schedule.id)
        created ==
            IF i # 0
            THEN IF "created_at" \in DOMAIN coll[i]
                 THEN coll[i]["created_at"] ELSE createdNow
            ELSE createdNow
    IN  [Dict(schedule) EXCEPT !["updated_at"] = updatedNow,
                               !["created_at"] = created]

\* POST /schedules
create_or_update_schedule(schedule, storeOk) ==
    /\ phase = "serving"
    /\ IF get_database # 200
       THEN /\ resp' = Response("upsert", schedule.id, schedule.created_at,
                                "unavailable",
                                ExceptException(get_database), <<>>)
            /\ UNCHANGED <<schedules, firstCreated>>
       ELSE IF ~storeOk
       THEN /\ resp' = Response("upsert", schedule.id, schedule.created_at,
                                "failed", ExceptException(0), <<>>)
            /\ UNCHANGED <<schedules, firstCreated>>
       ELSE LET doc == ScheduleDoc(schedule, schedules, UtcNowIso, UtcNowIso)
            IN  /\ schedules' = ReplaceOne(schedules, "id", schedule.id, doc)
                /\ firstCreated' =
                      IF firstCreated[schedule.id] = None
                      THEN [firstCreated EXCEPT
                              ![schedule.id] = doc["created_at"]]
                      ELSE firstCreated
                /\ resp' = Response("upsert", schedule.id,
                                    schedule.created_at, "ok", 200, <<>>)
    /\ UNCHANGED <<phase, client, database, clock, backups, lastBackup>>
    /\ UNCHANGED <<writers, lazyVars>>

\* A faulty ScheduleModels in which one invalid document loses the call's
\* whole result.
ScheduleModelsAllOrNothing(found) ==
    IF \A i \in 1..Len(found) : ScheduleValid(Pop(found[i], "_id"))
    THEN [i \in 1..Len(found) |-> ParseSchedule(Pop(found[i], "_id"))]
    ELSE <<>>

\* The loop of get_user_schedules: _id popped, invalid documents skipped.
ScheduleModels(found) ==
    LET kept == SelectSeq(found, LAMBDA d : ScheduleValid(Pop(d, "_id")))
    IN  [i \in 1..Len(kept) |-> ParseSchedule(Pop(kept[i], "_id"))]

\* GET /schedules/{user_id}
get_user_schedules(user_id, storeOk) ==
    /\ phase = "serving"
    /\ resp' =
         IF get_database # 200
         THEN Response("list", user_id, "", "unavailable",
                       ExceptException(get_database), <<>>)
         ELSE IF ~storeOk
         THEN Response("list", user_id, "", "failed",
                       ExceptException(0), <<>>)
         ELSE Response("list", user_id, "", "ok", 200,
                       ScheduleModels(Find(schedules, "user_id", user_id)))
    /\ UNCHANGED <<phase, client, database, clock, backups, schedules,
                   lastBackup, firstCreated>>
    /\ UNCHANGED <<writers, lazyVars>>

\* A faulty DeletedCount that reports a deletion whether or not one happened.
DeletedCountAlwaysOne(coll, key, val) == 1

\* result.deleted_count of delete_one
DeletedCount(coll, key, val) == IF FindIndex(coll, key, val) = 0 THEN 0 ELSE 1

\* DELETE /schedules/{schedule_id}
delete_schedule(schedule_id, storeOk) ==
    /\ phase = "serving"
    /\ IF get_database # 200
       THEN /\ resp' = Response("delete", schedule_id, "", "unavailable",
                                ReRaise(get_database), <<>>)
            /\ UNCHANGED <<schedules, firstCreated>>
       ELSE IF ~storeOk
       THEN /\ resp' = Response("delete", schedule_id, "", "failed",
                                ExceptException(0), <<>>)
            /\ UNCHANGED <<schedules, firstCreated>>
       ELSE IF DeletedCount(schedules, "id", schedule_id) = 0
       THEN /\ resp' = Response("delete", schedule_id, "", "ok",
                                ReRaise(404), <<>>)
            /\ UNCHANGED <<schedules, firstCreated>>
       ELSE /\ schedules' = DeleteOne(schedules, "id", schedule_id)
            /\ firstCreated' =
                  IF FindIndex(schedules', "id", schedule_id) = 0
                  THEN [firstCreated EXCEPT ![schedule_id] = None]
                  ELSE firstCreated
            /\ resp' = Response("delete", schedule_id, "", "ok", 200, <<>>)
    /\ UNCHANGED <<phase, client, database, clock, backups, lastBackup>>
    /\ UNCHANGED <<writers, lazyVars>>

Next ==
    \/ Tick
    \/ \E pingOk \in BOOLEAN : startup_event(pingOk)
    \/ \E d \in BackupRequests, ok \in BOOLEAN : backup_user_data(d, ok)
    \/ \E u \in UserIds, ok \in BOOLEAN : restore_user_data(u, ok)
    \/ \E s \in ScheduleRequests, ok \in BOOLEAN :
            create_or_update_schedule(s, ok)
    \/ \E u \in UserIds, ok \in BOOLEAN : get_user_schedules(u, ok)
    \/ \E i \in ScheduleIds, ok \in BOOLEAN : delete_schedule(i, ok)

\* The service of main.py, one request at a time, on an empty store.
Spec == Init /\ [][Next]_vars

\* ----------------------------------- main.py: POST /schedules, interleaved
\* create_or_update_schedule as the event loop runs it: the coroutine gives
\* up control at "await find_one" and at "await replace_one", and the store
\* carries out each of the two operations atomically.
ConcurrentRequests ==
    {ScheduleModel("s1", "u1", t, "2024-01-01") : t \in {"a", "b"}}

\* Lines 166-169, up to the await of find_one.
UpsertBegin(w, schedule) ==
    /\ phase = "serving"
    /\ writers[w].pc = "idle"
    /\ IF get_database # 200
       THEN /\ resp' = Response("upsert", schedule.id, schedule.created_at,
                                "unavailable",
                                ExceptException(get_database), <<>>)
            /\ UNCHANGED writers
       ELSE /\ writers' = [writers EXCEPT ![w] =
                  [pc |-> "find_one", schedule |-> <<schedule>>,
                   schedule_doc |-> <<[Dict(schedule) EXCEPT
                                         !["updated_at"] = UtcNowIso]>>]]
            /\ resp' = NoResp
    /\ UNCHANGED <<phase, client, database, clock, backups, schedules,
                   lastBackup, firstCreated, lazyVars>>

\* find_one runs in the store; lines 173-176 set created_at, up to the
\* await of replace_one.
UpsertFindOne(w, storeOk) ==
    /\ writers[w].pc = "find_one"
    /\ LET schedule == writers[w].schedule[1]
           updated_at == writers[w].schedule_doc[1]["updated_at"]
       IN  IF ~storeOk
           THEN /\ writers' = [writers EXCEPT ![w] = IdleWriter]
                /\ resp' = Response("upsert", schedule.id, schedule.created_at,
                                    "failed", ExceptException(0), <<>>)
           ELSE /\ writers' = [writers EXCEPT ![w] =
                      [pc |-> "replace_one", schedule |-> <<schedule>>,
                       schedule_doc |-> <<ScheduleDoc(schedule, schedules,
                                                     updated_at, UtcNowIso)>>]]
                /\ resp' = NoResp
    /\ UNCHANGED <<phase, client, database, clock, backups, schedules,
                   lastBackup, firstCreated, lazyVars>>

\* replace_one runs in the store; lines 184-189 answer.
UpsertReplaceOne(w, storeOk) ==
    /\ writers[w].pc = "replace_one"
    /\ LET schedule == writers[w].schedule[1]
           doc == writers[w].schedule_doc[1]
       IN  IF ~storeOk
           THEN /\ resp' = Response("upsert", schedule.id, schedule.created_at,
                                    "failed", ExceptException(0), <<>>)
                /\ UNCHANGED <<schedules, firstCreated>>
           ELSE /\ schedules' = ReplaceOne(schedules, "id", schedule.id, doc)
                /\ firstCreated' =
                      IF firstCreated[schedule.id] = None
                      THEN [firstCreated EXCEPT
                              ![schedule.id] = doc["created_at"]]
                      ELSE firstCreated
                /\ resp' = Response("upsert", schedule.id,
                                    schedule.created_at, "ok", 200, <<>>)
    /\ writers' = [writers EXCEPT ![w] = IdleWriter]
    /\ UNCHANGED <<phase, client, database, clock, backups, lastBackup,
                   lazyVars>>

\* The service started and connected, nothing stored yet.
InitConcurrent ==
    /\ phase = "serving"
    /\ client = "client"
    /\ database = "db"
    /\ clock = 0
    /\ backups = <<>>
    /\ schedules = <<>>
    /\ resp = NoResp
    /\ lastBackup = [u \in UserIds |-> <<>>]
    /\ firstCreated = [i \in ScheduleIds |-> None]
    /\ writers = [w \in Writers |-> IdleWriter]
    /\ _client = None
    /\ _database = None
    /\ constructed = 0
    /\ callers = [c \in Callers |-> IdleCaller]

NextConcurrent ==
    \/ Tick
    \/ \E w \in Writers, s \in ConcurrentRequests : UpsertBegin(w, s)
    \/ \E w \in Writers, ok \in BOOLEAN : UpsertFindOne(w, ok)
    \/ \E w \in Writers, ok \in BOOLEAN : UpsertReplaceOne(w, ok)

\* Concurrent POST /schedules requests for one schedule id.
SpecConcurrent == InitConcurrent /\ [][NextConcurrent]_vars

\* --------------------------------------- main_backup.py: lazy get_database
Routes == {"health", "schedules", "backup"}

\* The n-th AsyncIOMotorClient object the process builds.
AsyncIOMotorClient(n) == "client" \o ToString(n)

\* _client[DATABASE_NAME]
DatabaseOf(motorClient) == "db of " \o motorClient

\* What the route answers when get_database raises HTTPException(503):
\* health_check returns its "unhealthy" payload (a 200); the other handlers'
\* "except Exception" turns it into a 500.
RouteStatus(route, status) ==
    IF route = "health" THEN 200 ELSE ExceptException(status)

\* A faulty get_database that assigns _database only after the ping.
GetDatabaseEnterAssignAfterPing(c, route, constructOk) ==
    /\ callers[c].pc = "idle"
    /\ IF _database = None
       THEN IF constructOk
            THEN /\ constructed' = constructed + 1
                 /\ _client' = AsyncIOMotorClient(constructed + 1)
                 /\ UNCHANGED _database
                 /\ callers' = [callers EXCEPT ![c] =
                       [pc |-> "ping", route |-> route, db |-> None,
                        status |-> 0]]
            ELSE /\ callers' = [callers EXCEPT ![c] =
                       [pc |-> "failed", route |-> route, db |-> None,
                        status |-> RouteStatus(route, 503)]]
                 /\ UNCHANGED <<_client, _database, constructed>>
       ELSE /\ callers' = [callers EXCEPT ![c] =
                  [pc |-> "has_db", route |-> route, db |-> _database,
                   status |-> 0]]
            /\ UNCHANGED <<_client, _database, constructed>>
    /\ UNCHANGED <<phase, client, database, clock, backups, schedules, resp,
                   lastBackup, firstCreated, writers>>

\* get_database up to "await _database.command('ping')" (lines 36-52), or to
\* its return when _database is already set (lines 38, 58).  constructOk:
\* whether the AsyncIOMotorClient constructor returns instead of raising.
GetDatabaseEnter(c, route, constructOk) ==
    /\ callers[c].pc = "idle"
    /\ IF _database = None
       THEN IF constructOk
            THEN /\ constructed' = constructed + 1
                 /\ _client' = AsyncIOMotorClient(constructed + 1)
                 /\ _database' = DatabaseOf(_client')
                 /\ callers' = [callers EXCEPT ![c] =
                       [pc |-> "ping", route |-> route, db |-> None,
                        status |-> 0]]
            ELSE /\ callers' = [callers EXCEPT ![c] =
                       [pc |-> "failed", route |-> route, db |-> None,
                        status |-> RouteStatus(route, 503)]]
                 /\ UNCHANGED <<_client, _database, constructed>>
       ELSE /\ callers' = [callers EXCEPT ![c] =
                  [pc |-> "has_db", route |-> route, db |-> _database,
                   status |-> 0]]
            /\ UNCHANGED <<_client, _database, constructed>>
    /\ UNCHANGED <<phase, client, database, clock, backups, schedules, resp,
                   lastBackup, firstCreated, writers>>

\* The ping answers: get_database returns _database (line 58) or raises
\* HTTPException(503) (lines 54-56).
GetDatabasePing(c, pingOk) ==
    /\ callers[c].pc = "ping"
    /\ callers' = [callers EXCEPT ![c] =
          IF pingOk
          THEN [pc |-> "has_db", route |-> callers[c].route,
                db |-> _database, status |-> 0]
          ELSE [pc |-> "ping_failed", route |-> callers[c].route,
                db |-> None, status |-> RouteStatus(callers[c].route, 503)]]
    /\ UNCHANGED <<_client, _database, constructed>>
    /\ UNCHANGED <<phase, client, database, clock, backups, schedules, resp,
                   lastBackup, firstCreated, writers>>

\* The request is over: answered with an error, or the handler went on to
\* its store operation with the handle it got and answered.
RequestEnd(c) ==
    /\ callers[c].pc \in {"has_db", "failed", "ping_failed"}
    /\ callers' = [callers EXCEPT ![c] = IdleCaller]
    /\ UNCHANGED <<_client, _database, constructed>>
    /\ UNCHANGED <<phase, client, database, clock, backups, schedules, resp,
                   lastBackup, firstCreated, writers>>

InitLazy ==
    /\ phase = "serving"
    /\ client = None
    /\ database = None
    /\ clock = 0
    /\ backups = <<>>
    /\ schedules = <<>>
    /\ resp = NoResp
    /\ lastBackup = [u \in UserIds |-> <<>>]
    /\ firstCreated = [i \in ScheduleIds |-> None]
    /\ writers = [w \in Writers |-> IdleWriter]
    /\ _client = None
    /\ _database = None
    /\ constructed = 0
    /\ callers = [c \in Callers |-> IdleCaller]

NextLazy ==
    \/ \E c \in Callers, r \in Routes, ok \in BOOLEAN :
            GetDatabaseEnter(c, r, ok)
    \/ \E c \in Callers, ok \in BOOLEAN : GetDatabasePing(c, ok)
    \/ \E c \in Callers : RequestEnd(c)

\* The requests of main_backup.py calling get_database, interleaved.
SpecLazy == InitLazy /\ [][NextLazy]_vars

\* ------------------------------------------------------------ properties
\* Indices of the documents of a collection matching {key: val}.
Holding(coll, key, val) == {k \in 1..Len(coll) : Matches(coll[k], key, val)}

\* The collection without its k-th document.
Without(coll, k) == SubSeq(coll, 1, k - 1) \o SubSeq(coll, k + 1, Len(coll))

\* C1: across upserts of one schedule id with no delete in between, the
\* stored created_at stays the one the first upsert stored, whatever
\* created_at the later payloads carry, and a successful upsert leaves the
\* document's updated_at at the time of that call.
C1_CreatedAtPreserved ==
    /\ \A i \in ScheduleIds :
          firstCreated[i] # None =>
             /\ Holding(schedules, "id", i) # {}
             /\ \A k \in Holding(schedules, "id", i) :
                    schedules[k]["created_at"] = firstCreated[i]
    /\ (resp.op = "upsert" /\ resp.status = 200) =>
          /\ Holding(schedules, "id", resp.arg) # {}
          /\ \A k \in Holding(schedules, "id", resp.arg) :
                schedules[k]["updated_at"] = IsoFormat(clock)

\* C1 witness: a later upsert of s1, sent with created_at 2099-01-01, has
\* succeeded on a document first stored at an earlier clock reading.
C1_Witness ==
    /\ resp.op = "upsert" /\ resp.arg = "s1" /\ resp.status = 200
    /\ resp.note = "2099-01-01"
    /\ firstCreated["s1"] = IsoFormat(0)
    /\ clock = 1
    /\ \E k \in Holding(schedules, "id", "s1") :
          /\ schedules[k]["created_at"] = IsoFormat(0)
          /\ schedules[k]["updated_at"] = IsoFormat(1)

\* C2: each collection holds at most one document per natural key, and a
\* schedule listing never shows one schedule id twice.
C2_NaturalKeyUnique ==
    /\ \A u \in UserIds : Cardinality(Holding(backups, "user_id", u)) <= 1
    /\ \A i \in ScheduleIds : Cardinality(Holding(schedules, "id", i)) <= 1
    /\ (resp.op = "list" /\ resp.status = 200) =>
          \A j1, j2 \in 1..Len(resp.body) :
             resp.body[j1]["id"] = resp.body[j2]["id"] => j1 = j2

\* C2 witness: a backup has replaced an earlier one of the same user while
\* both collections hold documents for every key.
C2_Witness ==
    /\ resp.op = "backup" /\ resp.status = 200 /\ resp.body = <<"updated">>
    /\ \A u \in UserIds : Cardinality(Holding(backups, "user_id", u)) = 1
    /\ \A i \in ScheduleIds : Cardinality(Holding(schedules, "id", i)) = 1
    /\ \E i \in ScheduleIds : \E k \in Holding(schedules, "id", i) :
          schedules[k]["created_at"] # schedules[k]["updated_at"]

\* C3: a successful restore returns exactly the user, the schedule list and
\* the backup_date of the last backup stored for that user id.
C3_RestoreLatestBackup ==
    (resp.op = "restore" /\ resp.status = 200) =>
       /\ lastBackup[resp.arg] # <<>>
       /\ Len(resp.body) = 1
       /\ LET sent == lastBackup[resp.arg][1]
              got == resp.body[1]
          IN  /\ got.user = sent.user
              /\ got.user.id = resp.arg
              /\ got.schedules = sent.schedules
              /\ got.backup_date = sent.backup_date

\* C3 witness: restore of u1 returns the one-schedule snapshot of
\* 2024-07-01 (schedule s2 of the other snapshot is absent) while a backup
\* of u2 is stored too.
C3_Witness ==
    /\ resp.op = "restore" /\ resp.arg = "u1" /\ resp.status = 200
    /\ Len(resp.body[1].schedules) = 1
    /\ resp.body[1].backup_date = "2024-07-01"
    /\ Holding(backups, "user_id", "u2") # {}
    /\ Holding(backups, "user_id", "u1") = {1}
    /\ backups[1]["created_at"] = IsoFormat(1)

\* The step is a successful backup that repeats, at a later clock reading,
\* the payload already stored for the user.
RepeatedBackupStep(u) ==
    /\ resp'.op = "backup" /\ resp'.arg = u /\ resp'.status = 200
    /\ lastBackup[u] # <<>>
    /\ lastBackup'[u] = lastBackup[u]
    /\ \A k \in Holding(backups, "user_id", u) :
          backups[k]["updated_at"] # IsoFormat(clock)

\* C4 as stated: after an identical backup at a later time the stored
\* document equals the earlier one in every field.
C4_AsStated ==
    [][\A u \in UserIds :
          RepeatedBackupStep(u) =>
             /\ Cardinality(Holding(backups', "user_id", u)) = 1
             /\ \A k \in Holding(backups, "user_id", u) :
                    backups'[k] = backups[k]]_vars

\* C4 amended: after an identical backup at a later time there is still one
\* document for the user, equal to the earlier one in every field except
\* created_at and updated_at, which both carry the time of the second call;
\* what restore builds from it is the same.
C4_RepeatedBackup ==
    [][\A u \in UserIds :
          RepeatedBackupStep(u) =>
             /\ Cardinality(Holding(backups', "user_id", u)) = 1
             /\ Len(backups') = Len(backups)
             /\ \A k \in Holding(backups, "user_id", u) :
                   /\ DOMAIN backups'[k] = DOMAIN backups[k]
                   /\ \A f \in DOMAIN backups[k] \ {"created_at", "updated_at"} :
                          backups'[k][f] = backups[k][f]
                   /\ backups'[k]["created_at"] = IsoFormat(clock)
                   /\ backups'[k]["updated_at"] = IsoFormat(clock)
                   /\ backups'[k]["created_at"] # backups[k]["created_at"]
                   /\ RestoreDataResponse(backups'[k])
                        = RestoreDataResponse(backups[k])]_vars

\* C4 witness: a backup of u1 has just repeated the stored payload at a
\* later clock reading.
C4_Witness ==
    /\ resp.op = "backup" /\ resp.arg = "u1" /\ resp.status = 200
    /\ resp.note = "repeated later"
    /\ resp.body = <<"updated">>

\* C5: with the store carrying out the delete, deleting an id that has no
\* document answers 404 and changes neither collection; deleting an id that
\* has one answers 200 and removes that document and no other.
C5_DeleteSchedule ==
    [][(resp'.op = "delete" /\ resp'.store = "ok") =>
          LET hit == Holding(schedules, "id", resp'.arg)
          IN  /\ backups' = backups
              /\ hit = {} => (resp'.status = 404 /\ schedules' = schedules)
              /\ hit # {} =>
                    /\ resp'.status = 200
                    /\ \E k \in hit : schedules' = Without(schedules, k)
                    /\ Holding(schedules', "id", resp'.arg) = {}]_vars

\* C5 witness: a delete of s1 has answered 404 while s2 is stored.
C5_Witness ==
    /\ resp.op = "delete" /\ resp.arg = "s1" /\ resp.status = 404
    /\ Holding(schedules, "id", "s2") # {}
    /\ backups # <<>>

\* C6: with the store carrying out the read, restore answers 404 exactly
\* when no backup of that user id has succeeded before, and 200 otherwise;
\* restore changes neither collection, whatever it answers.
C6_RestoreNotFound ==
    [][resp'.op = "restore" =>
          /\ backups' = backups
          /\ schedules' = schedules
          /\ resp'.store = "ok" =>
                /\ lastBackup[resp'.arg] = <<>> => resp'.status = 404
                /\ lastBackup[resp'.arg] # <<>> => resp'.status = 200]_vars

\* C6 witness: restore of u2 has answered 404 although u1 has a backup and
\* schedules are stored.
C6_Witness ==
    /\ resp.op = "restore" /\ resp.arg = "u2" /\ resp.status = 404
    /\ lastBackup["u1"] # <<>>
    /\ schedules # <<>>

\* C8 as stated: a request that finds the store handle unavailable is
\* answered 503.
C8_Unavailable503 ==
    resp.store = "unavailable" => resp.status = 503

\* ---------------------------------------------- a store with older documents
\* A schedule document as an earlier deployment left it in the collection.
LegacyDoc(id, user_id) ==
    WithId(Dict(ScheduleModel(id, user_id, "a", "2023-06-01")))

\* A schedule document written without created_at: ScheduleModel(**doc)
\* rejects it, and existing.get("created_at", ...) falls to its default.
LegacyDocNoCreated(id, user_id) == Pop(LegacyDoc(id, user_id), "created_at")

LegacyStore == <<LegacyDoc("s0", "u1"), LegacyDocNoCreated("s1", "u1")>>

InitLegacy ==
    /\ phase \in {"starting", "serving"}
    /\ client = None
    /\ database = None
    /\ clock = 0
    /\ backups = <<>>
    /\ schedules = LegacyStore
    /\ resp = NoResp
    /\ lastBackup = [u \in UserIds |-> <<>>]
    /\ firstCreated = [i \in ScheduleIds |-> None]
    /\ writers = [w \in Writers |-> IdleWriter]
    /\ _client = None
    /\ _database = None
    /\ constructed = 0
    /\ callers = [c \in Callers |-> IdleCaller]

\* The service of main.py on a schedules collection that already holds
\* documents, one of them missing a required field.
SpecLegacy == InitLegacy /\ [][Next]_vars

\* The response item is the stored document reduced to the model's fields.
SameSchedule(item, doc) ==
    /\ DOMAIN item = ScheduleFields
    /\ \A f \in ScheduleFields :
          item[f] = IF f \in DOMAIN doc THEN doc[f] ELSE None

\* C7: with the store carrying out the read, listSchedules answers 200
\* with exactly the stored documents of that user that have every required
\* field; a document missing one is left out and no other user's document
\* is returned.
C7_ListSchedules ==
    (resp.op = "list" /\ resp.store = "ok") =>
       /\ resp.status = 200
       /\ LET mine == {k \in 1..Len(schedules) :
                         /\ "user_id" \in DOMAIN schedules[k]
                         /\ schedules[k]["user_id"] = resp.arg
                         /\ \A f \in ScheduleRequired :
                               /\ f \in DOMAIN schedules[k]
                               /\ schedules[k][f] # None}
          IN  /\ Len(resp.body) = Cardinality(mine)
              /\ \A k \in mine : \E j \in 1..Len(resp.body) :
                    SameSchedule(resp.body[j], schedules[k])
              /\ \A j \in 1..Len(resp.body) :
                    /\ resp.body[j]["user_id"] = resp.arg
                    /\ \E k \in mine : SameSchedule(resp.body[j], schedules[k])

\* C7 witness: the listing of u1 returns the valid document s0 alone while
\* a document of u1 without created_at and a document of u2 are stored.
C7_Witness ==
    /\ resp.op = "list" /\ resp.arg = "u1" /\ resp.status = 200
    /\ Len(resp.body) = 1
    /\ resp.body[1]["id"] = "s0"
    /\ \E k \in Holding(schedules, "user_id", "u1") :
          "created_at" \notin DOMAIN schedules[k]
    /\ Holding(schedules, "user_id", "u2") # {}

\* C9 as stated: under interleaved upserts of one schedule id, the stored
\* document's created_at never changes once a document for the id exists.
C9_CreatedAtStable ==
    [][\A i \in ScheduleIds :
          \A k \in Holding(schedules, "id", i) :
             \A n \in Holding(schedules', "id", i) :
                schedules'[n]["created_at"] = schedules[k]["created_at"]]_vars

\* C10: the lazily-initialised variant builds at most one client, and every
\* handle get_database returns is the database of that one client.
C10_SingleClient ==
    /\ constructed <= 1
    /\ \A c \in Callers :
          callers[c].pc = "has_db" =>
             /\ constructed = 1
             /\ callers[c].db = DatabaseOf(AsyncIOMotorClient(1))
             /\ callers[c].db = _database

\* C10 witness: the first caller's ping failed, and two other callers,
\* in flight together, hold the handle.
C10_Witness ==
    /\ constructed = 1
    /\ \E c1, c2, c3 \in Callers :
          /\ c1 # c2
          /\ callers[c1].pc = "has_db" /\ callers[c2].pc = "has_db"
          /\ callers[c1].db = callers[c2].db
          /\ callers[c3].pc = "ping_failed"

====
